---- MODULE Spec2Model ----
(***************************************************************************)
(* A model of the support-ticket system (backend/tickets): the ticket      *)
(* store with its validated writes, the list / stats read operations and   *)
(* the classification gateway.                                             *)
(*                                                                         *)
(* Text is a sequence of one-character strings, so that lower-casing,      *)
(* trimming, substring search and term splitting are computed character by *)
(* character.  Time is a tick counter; a calendar day is TicksPerDay ticks.*)
(***************************************************************************)
EXTENDS Integers, Sequences, FiniteSets, TLC

VARIABLES
    tickets,        \* the Ticket table: a sequence of rows, row i has id = i
    now,            \* the wall clock, in ticks
    req,            \* the request being answered
    resp,           \* the response to it
    statsPc,        \* position of the stats handler
    stats,          \* the locals of the stats handler
    api_key,        \* os.environ['GEMINI_API_KEY'] ("" when not set)
    provider,       \* the external classifier: "responsive" or "silent"
    providerCalls,  \* generate_content requests the provider has received
    clsPc,          \* position of the classify handler
    reply           \* what the provider answered to the call in flight

vars == <<tickets, now, req, resp, statsPc, stats,
          api_key, provider, providerCalls, clsPc, reply>>

storeVars == <<tickets, now>>
statsVars == <<statsPc, stats>>
clsVars   == <<api_key, provider, providerCalls, clsPc, reply>>

-----------------------------------------------------------------------------
(* Bounds of the model *)

MaxTickets      == 2   \* rows in the store (write, list, interleaved stats)
MaxTime         == 2   \* last tick of the clock (list, interleaved stats)
MaxStatsTickets == 3   \* rows in the store (stats, one request at a time)
MaxStatsTime    == 2   \* last tick of the clock (stats, one request at a time)
MaxDailyTickets == 5   \* rows in the store (daily-average specification)
MaxDailyTime    == 7   \* last tick of the clock (daily-average specification)
MaxCalls        == 2   \* provider requests counted
TicksPerDay     == 2   \* clock ticks in one calendar day

-----------------------------------------------------------------------------
(* Text *)

None == "None"

LowerMap ==
    [A |-> "a", B |-> "b", C |-> "c", D |-> "d", E |-> "e", F |-> "f",
     G |-> "g", H |-> "h", I |-> "i", J |-> "j", K |-> "k", L |-> "l",
     M |-> "m", N |-> "n", O |-> "o", P |-> "p", Q |-> "q", R |-> "r",
     S |-> "s", T |-> "t", U |-> "u", V |-> "v", W |-> "w", X |-> "x",
     Y |-> "y", Z |-> "z"]

LowerChar(c) == IF c \in DOMAIN LowerMap THEN LowerMap[c] ELSE c

\* str.lower()
Lower(s) == [i \in 1..Len(s) |-> LowerChar(s[i])]

Whitespace == {" ", "\t", "\n"}

SetMin(S) == CHOOSE x \in S : \A y \in S : x <= y
SetMax(S) == CHOOSE x \in S : \A y \in S : x >= y

\* str.strip()
Strip(s) ==
    LET keep == {i \in 1..Len(s) : s[i] \notin Whitespace}
    IN  IF keep = {} THEN <<>> ELSE SubSeq(s, SetMin(keep), SetMax(keep))

\* needle occurs in hay as a contiguous run
Contains(hay, needle) ==
    \E i \in 0..(Len(hay) - Len(needle)) :
        SubSeq(hay, i + 1, i + Len(needle)) = needle

\* the icontains lookup
IContains(hay, needle) == Contains(Lower(hay), Lower(needle))

-----------------------------------------------------------------------------
(* models.py: the enumerated values *)

billing     == <<"b","i","l","l","i","n","g">>
technical   == <<"t","e","c","h","n","i","c","a","l">>
account     == <<"a","c","c","o","u","n","t">>
general     == <<"g","e","n","e","r","a","l">>

low         == <<"l","o","w">>
medium      == <<"m","e","d","i","u","m">>
high        == <<"h","i","g","h">>
critical    == <<"c","r","i","t","i","c","a","l">>

open        == <<"o","p","e","n">>
in_progress == <<"i","n","_","p","r","o","g","r","e","s","s">>
resolved    == <<"r","e","s","o","l","v","e","d">>
closed      == <<"c","l","o","s","e","d">>

Category == {billing, technical, account, general}
Priority == {low, medium, high, critical}
Status   == {open, in_progress, resolved, closed}

TitleMaxLength == 200

\* the choices of a field
Choices(f) ==
    CASE f = "category" -> Category
      [] f = "priority" -> Priority
      [] f = "status"   -> Status

\* the default of a field
Default(f) ==
    CASE f = "category" -> general
      [] f = "priority" -> medium
      [] f = "status"   -> open

ChoiceFields == {"category", "priority", "status"}
TextFields   == {"title", "description"}

\* Meta.constraints: valid_category, valid_priority, valid_status
CheckConstraints(row) ==
    /\ row.category \in Category
    /\ row.priority \in Priority
    /\ row.status \in Status

-----------------------------------------------------------------------------
(* serializers.py: TicketSerializer *)

SerializerFields == {"id", "title", "description", "category",
                     "priority", "status", "created_at"}
ReadOnlyFields   == {"id", "created_at"}

\* (mutation) read_only_fields left out of the serializer
WritableInputNoReadOnly(data) == DOMAIN data \cap SerializerFields

\* the fields of the input the serializer reads: read-only ones are dropped
WritableInput(data) == (DOMAIN data \cap SerializerFields) \ ReadOnlyFields

\* (mutation) choice fields declared without choices
FieldValidNoChoices(f, v) ==
    IF f \in ChoiceFields
    THEN TRUE
    ELSE f \in TextFields =>
            /\ Strip(v) # <<>>
            /\ (f = "title" => Len(Strip(v)) <= TitleMaxLength)

\* one field of the input passes its validator
FieldValid(f, v) ==
    IF f \in ChoiceFields
    THEN v \in Choices(f)
    ELSE f \in TextFields =>
            /\ Strip(v) # <<>>
            /\ (f = "title" => Len(Strip(v)) <= TitleMaxLength)

\* the validated value of a field (text is trimmed)
Cleaned(f, v) == IF f \in TextFields THEN Strip(v) ELSE v

\* is_valid(): every supplied field is valid; unless partial, the required
\* fields are supplied
IsValid(data, partial) ==
    /\ \A f \in WritableInput(data) : FieldValid(f, data[f])
    /\ partial \/ TextFields \subseteq DOMAIN data

\* validated_data
ValidatedData(data) == [f \in WritableInput(data) |-> Cleaned(f, data[f])]

-----------------------------------------------------------------------------
(* The Ticket table *)

Ids == 1..Len(tickets)

\* TruncDate('created_at')
TruncDate(t) == t \div TicksPerDay

\* Ticket.objects.create / serializer.save() of a new row; created_at is
\* auto_now_add, the fields left out take their defaults
NewRow(vd) ==
    [id          |-> Len(tickets) + 1,
     title       |-> vd.title,
     description |-> vd.description,
     category    |-> IF "category" \in DOMAIN vd THEN vd.category
                     ELSE Default("category"),
     priority    |-> IF "priority" \in DOMAIN vd THEN vd.priority
                     ELSE Default("priority"),
     status      |-> IF "status" \in DOMAIN vd THEN vd.status
                     ELSE Default("status"),
     created_at  |-> now]

\* serializer.update(): setattr for every validated field
UpdatedRow(row, vd) ==
    [f \in DOMAIN row |-> IF f \in DOMAIN vd THEN vd[f] ELSE row[f]]

Response(code, body) == [status |-> code, body |-> body]

-----------------------------------------------------------------------------
(* views.py: create and partial update (ModelViewSet) *)

\* POST /tickets
Create(data, cap) ==
    /\ Len(tickets) < cap \/ ~IsValid(data, FALSE)
    /\ req' = [op |-> "create", id |-> 0, data |-> data]
    /\ IF ~IsValid(data, FALSE)
       THEN /\ resp' = Response(400, None)
            /\ UNCHANGED tickets
       ELSE LET row == NewRow(ValidatedData(data))
            IN  IF CheckConstraints(row)
                THEN /\ tickets' = Append(tickets, row)
                     /\ resp' = Response(201, row)
                ELSE /\ resp' = Response(500, None)
                     /\ UNCHANGED tickets
    /\ UNCHANGED <<now, statsVars, clsVars>>

\* PATCH /tickets/{id}
PartialUpdate(id, data) ==
    /\ req' = [op |-> "update", id |-> id, data |-> data]
    /\ IF id \notin Ids
       THEN /\ resp' = Response(404, None)
            /\ UNCHANGED tickets
       ELSE IF ~IsValid(data, TRUE)
       THEN /\ resp' = Response(400, None)
            /\ UNCHANGED tickets
       ELSE LET row == UpdatedRow(tickets[id], ValidatedData(data))
            IN  IF CheckConstraints(row)
                THEN /\ tickets' = [tickets EXCEPT ![id] = row]
                     /\ resp' = Response(200, row)
                ELSE /\ resp' = Response(500, None)
                     /\ UNCHANGED tickets
    /\ UNCHANGED <<now, statsVars, clsVars>>

\* the clock advances
Tick(limit) ==
    /\ now < limit
    /\ now' = now + 1
    /\ UNCHANGED <<tickets, req, resp, statsVars, clsVars>>

-----------------------------------------------------------------------------
(* Inputs of the write specification *)

tA     == <<"P","a">>
tB     == <<"b"," ","a">>
tPad   == <<" ","b"," ","a"," ">>
tBlank == <<" ","\t">>
dA     == <<"a","b">>
dB     == <<"A"," ","c">>

Billing == <<"B","i","l","l","i","n","g">>
urgent  == <<"u","r","g","e","n","t">>

WriteCreateInputs ==
    { [title |-> tA, description |-> dA],
      [title |-> tPad, description |-> dA, category |-> billing,
       priority |-> high, status |-> resolved],
      [title |-> tA, description |-> dA, id |-> 9, created_at |-> 99],
      [description |-> dA],
      [title |-> tBlank, description |-> dA],
      [title |-> tA, description |-> dA, category |-> Billing],
      [title |-> tA, description |-> dA, priority |-> urgent, status |-> <<>>] }

WriteUpdateInputs ==
    { <<>>,
      [status |-> in_progress],
      [title |-> tPad, priority |-> critical],
      [id |-> 9, created_at |-> 99, status |-> in_progress],
      [priority |-> <<>>],
      [title |-> tBlank],
      [status |-> closed, category |-> Billing] }

EmptyRequest  == [op |-> "none", id |-> 0, data |-> <<>>]
EmptyResponse == Response(0, None)
NoReply       == [kind |-> "none"]
EmptyStats    == [total |-> 0, open_count |-> 0, avg_per_day |-> 0,
                  priority_breakdown |-> <<>>, category_breakdown |-> <<>>]

Init ==
    /\ tickets = <<>>
    /\ now = 0
    /\ req = EmptyRequest
    /\ resp = EmptyResponse
    /\ statsPc = "idle"
    /\ stats = EmptyStats
    /\ api_key \in {"", "key"}
    /\ provider \in {"responsive", "silent"}
    /\ providerCalls = 0
    /\ clsPc = "idle"
    /\ reply = NoReply

\* the write and read specifications run with the classifier's environment
\* as in the test suite: no credential
StoreInit == Init /\ api_key = "" /\ provider = "responsive"

WriteNext ==
    \/ \E data \in WriteCreateInputs : Create(data, MaxTickets)
    \/ \E id \in 1..(MaxTickets + 1), data \in WriteUpdateInputs :
           PartialUpdate(id, data)

WriteSpec == StoreInit /\ [][WriteNext]_vars

-----------------------------------------------------------------------------
(* views.py: stats.  Each ORM query is one statement against the table; the
   handler runs them one after the other, outside any transaction. *)

RECURSIVE SumCounts(_)
SumCounts(rows) ==
    IF rows = {} THEN 0
    ELSE LET r == CHOOSE x \in rows : TRUE
         IN  r.count + SumCounts(rows \ {r})

\* .values(field).annotate(count=Count('id')): one row per value present
GroupCount(field) ==
    {[key   |-> k,
      count |-> Cardinality({i \in Ids : tickets[i][field] = k})] :
         k \in {tickets[i][field] : i \in Ids}}

\* .annotate(date=TruncDate('created_at')).values('date')
\* .annotate(daily_count=Count('id')): one row per date present
DailyCounts ==
    {[key   |-> d,
      count |-> Cardinality({i \in Ids : TruncDate(tickets[i].created_at) = d})] :
         d \in {TruncDate(tickets[i].created_at) : i \in Ids}}

\* round(x, 1) of the fraction num / den, in tenths: to the nearest tenth,
\* a tie going to the even one
Round1(num, den) ==
    LET q == (10 * num) \div den
        r == (10 * num) % den
    IN  IF 2 * r < den THEN q
        ELSE IF 2 * r > den THEN q + 1
        ELSE IF q % 2 = 0 THEN q ELSE q + 1

\* (mutation) the average taken over the calendar span first..last date
AvgPerDayOverSpan(rows) ==
    IF rows = {} THEN 0
    ELSE Round1(SumCounts(rows),
                SetMax({r.key : r \in rows}) - SetMin({r.key : r \in rows}) + 1)

\* round(aggregate(Avg('daily_count')) or 0, 1), in tenths
AvgPerDay(rows) ==
    IF rows = {} THEN 0
    ELSE Round1(SumCounts(rows), Cardinality(rows))

\* (mutation) the breakdown built from the rows alone, not pre-seeded
BreakdownUnseeded(seed, rows) ==
    [k \in {r.key : r \in rows} |->
        (CHOOSE r \in rows : r.key = k).count]

\* {v: 0 for v in enum}, then breakdown[row[field]] = row['count']
Breakdown(seed, rows) ==
    [k \in seed \cup {r.key : r \in rows} |->
        IF \E r \in rows : r.key = k
        THEN (CHOOSE r \in rows : r.key = k).count
        ELSE 0]

\* total = Ticket.objects.count()
StatsTotal ==
    /\ statsPc = "idle"
    /\ stats' = [stats EXCEPT !.total = Len(tickets)]
    /\ statsPc' = "open_count"
    /\ UNCHANGED <<storeVars, req, resp, clsVars>>

\* open_count = Ticket.objects.filter(status='open').count()
StatsOpenCount ==
    /\ statsPc = "open_count"
    /\ stats' = [stats EXCEPT
                   !.open_count = Cardinality({i \in Ids : tickets[i].status = open})]
    /\ statsPc' = "avg_per_day"
    /\ UNCHANGED <<storeVars, req, resp, clsVars>>

\* avg_result = daily_counts.aggregate(avg_per_day=Avg('daily_count'))
StatsAvgPerDay ==
    /\ statsPc = "avg_per_day"
    /\ stats' = [stats EXCEPT !.avg_per_day = AvgPerDay(DailyCounts)]
    /\ statsPc' = "priority"
    /\ UNCHANGED <<storeVars, req, resp, clsVars>>

\* for row in priority_qs: ...
StatsPriority ==
    /\ statsPc = "priority"
    /\ stats' = [stats EXCEPT
                   !.priority_breakdown = Breakdown(Priority, GroupCount("priority"))]
    /\ statsPc' = "category"
    /\ UNCHANGED <<storeVars, req, resp, clsVars>>

\* for row in category_qs: ...; return Response({...})
StatsCategory ==
    /\ statsPc = "category"
    /\ LET summary == [stats EXCEPT
                   !.category_breakdown = Breakdown(Category, GroupCount("category"))]
       IN  /\ req' = [op |-> "stats", id |-> 0, data |-> <<>>]
           /\ resp' = Response(200, summary)
    /\ stats' = EmptyStats
    /\ statsPc' = "idle"
    /\ UNCHANGED <<storeVars, clsVars>>

StatsStep ==
    \/ StatsTotal
    \/ StatsOpenCount
    \/ StatsAvgPerDay
    \/ StatsPriority
    \/ StatsCategory

StatsCreateInputs ==
    { [title |-> tA, description |-> dA],
      [title |-> tA, description |-> dA, priority |-> high, category |-> billing],
      [title |-> tA, description |-> dA, priority |-> low, category |-> technical,
       status |-> resolved] }

StatsUpdateInputs ==
    { [status |-> resolved],
      [priority |-> high, category |-> billing] }

StatsWrite(cap, limit) ==
    \/ \E data \in StatsCreateInputs : Create(data, cap)
    \/ \E id \in 1..cap, data \in StatsUpdateInputs : PartialUpdate(id, data)
    \/ Tick(limit)

\* stats requests interleaved with the writes of other requests
StatsNext == StatsWrite(MaxTickets, MaxTime) \/ StatsStep

StatsSpec == StoreInit /\ [][StatsNext]_vars

\* requests served one at a time: no write while a stats call is running
SerialNext ==
    \/ statsPc = "idle" /\ StatsWrite(MaxStatsTickets, MaxStatsTime)
    \/ StatsStep

SerialSpec == StoreInit /\ [][SerialNext]_vars

\* requests served one at a time, tickets created with the defaults over
\* several days
DailyNext ==
    \/ /\ statsPc = "idle"
       /\ Create([title |-> tA, description |-> dA], MaxDailyTickets)
    \/ statsPc = "idle" /\ Tick(MaxDailyTime)
    \/ StatsStep

DailySpec == StoreInit /\ [][DailyNext]_vars

-----------------------------------------------------------------------------
(* views.py: list, with the django-filter and SearchFilter backends *)

filterset_fields == {"category", "priority", "status"}
search_fields    == {"title", "description"}

SearchSeparators == Whitespace \cup {","}

\* SearchFilter.get_search_terms: the search string cut at whitespace and
\* commas, empty pieces dropped
RECURSIVE SplitTerms(_, _, _)
SplitTerms(s, cur, acc) ==
    IF s = <<>>
    THEN IF cur = <<>> THEN acc ELSE Append(acc, cur)
    ELSE IF Head(s) \in SearchSeparators
         THEN SplitTerms(Tail(s), <<>>, IF cur = <<>> THEN acc ELSE Append(acc, cur))
         ELSE SplitTerms(Tail(s), Append(cur, Head(s)), acc)

\* (mutation) the search string taken as one phrase
SearchTermsWholePhrase(params) ==
    IF "search" \in DOMAIN params /\ params.search # <<>>
    THEN <<params.search>>
    ELSE <<>>

SearchTerms(params) ==
    IF "search" \in DOMAIN params
    THEN SplitTerms(params.search, <<>>, <<>>)
    ELSE <<>>

\* DjangoFilterBackend: exact match on every filter supplied
MatchesFilters(row, params) ==
    \A f \in DOMAIN params \cap filterset_fields : row[f] = params[f]

\* SearchFilter.filter_queryset: every term is found (icontains) in at least
\* one of the search fields
MatchesSearch(row, params) ==
    LET terms == SearchTerms(params)
    IN  \A n \in 1..Len(terms) :
            \E f \in search_fields : IContains(row[f], terms[n])

\* the queryset after both backends
Selected(params) ==
    {i \in Ids : MatchesFilters(tickets[i], params)
                 /\ MatchesSearch(tickets[i], params)}

\* ordering = ['-created_at']: the orders of the selected rows the database
\* may return (rows with equal created_at come in either order)
Orderings(S) ==
    {o \in [1..Cardinality(S) -> S] :
        /\ \A a, b \in 1..Cardinality(S) : a # b => o[a] # o[b]
        /\ \A a, b \in 1..Cardinality(S) :
              a < b => tickets[o[a]].created_at >= tickets[o[b]].created_at}

\* GET /tickets
List(params) ==
    /\ req' = [op |-> "list", id |-> 0, data |-> params]
    /\ \E o \in Orderings(Selected(params)) :
           resp' = Response(200, [n \in DOMAIN o |-> tickets[o[n]]])
    /\ UNCHANGED <<storeVars, statsVars, clsVars>>

ListCreateInputs ==
    { [title |-> tA, description |-> dA],
      [title |-> tB, description |-> dB, category |-> billing,
       priority |-> high] }

ListUpdateInputs ==
    { [status |-> resolved] }

ListFilters ==
    { <<>>,
      [status |-> open],
      [category |-> billing, priority |-> high],
      [category |-> billing, priority |-> medium, status |-> resolved] }

ListSearches ==
    { <<"p","A">>, <<"b"," ","a">>, <<"a"," ","b">>, <<"a",",","c">> }

WithSearch(params, q) ==
    [f \in DOMAIN params \cup {"search"} |->
        IF f = "search" THEN q ELSE params[f]]

ListInputs ==
    ListFilters \cup {WithSearch(p, q) : p \in ListFilters, q \in ListSearches}

ListNext ==
    \/ \E data \in ListCreateInputs : Create(data, MaxTickets)
    \/ \E id \in 1..MaxTickets, data \in ListUpdateInputs :
           PartialUpdate(id, data)
    \/ Tick(MaxTime)
    \/ \E params \in ListInputs : List(params)

ListSpec == StoreInit /\ [][ListNext]_vars

-----------------------------------------------------------------------------
(* llm.py: classify_ticket, and views.py: classify.

   The provider's answer is either an exception raised by the call or a
   response whose text is None or a document.  A document is kept as what
   json.loads makes of it: "invalid" (JSONDecodeError) or a JSON value
   [t |-> "null" | "num" | "arr" | "str" | "obj", ...]; the members of an
   object are a function from member names to JSON values. *)

JStr(v)  == [t |-> "str", v |-> v]
JNum     == [t |-> "num"]
JNull    == [t |-> "null"]
JArr     == [t |-> "arr"]
JObj(m)  == [t |-> "obj", members |-> m]
JInvalid == [t |-> "invalid"]
NoText   == [t |-> "None"]

Raised(exc)   == [kind |-> "raise", exc |-> exc]
Returned(val) == [kind |-> "return", value |-> val]
ReturnedNone  == [kind |-> "none"]

valid_categories == {billing, technical, account, general}
valid_priorities == {low, medium, high, critical}

\* (mutation) the credential check left out
CredentialAbsentNever(key) == FALSE

\* if not api_key
CredentialAbsent(key) == key = ""

\* (mutation) except json.JSONDecodeError instead of except Exception
ExceptClauseJsonOnly(exc) == exc = "JSONDecodeError"

\* except Exception: every exception class the try body can raise derives
\* from Exception
ExceptClause(exc) ==
    exc \in {"ValueError", "ReadTimeout", "ClientError429", "ClientError401",
             "ServerError", "AttributeError", "JSONDecodeError"}

\* (mutation) the check passes when either value is allowed
ValidSuggestionEither(category, priority) ==
    category \in valid_categories \/ priority \in valid_priorities

\* not (category not in valid_categories or priority not in valid_priorities)
ValidSuggestion(category, priority) ==
    category \in valid_categories /\ priority \in valid_priorities

\* result.get(name, ''): on anything but an object, AttributeError
Get(result, name) ==
    IF result.t # "obj" THEN Raised("AttributeError")
    ELSE IF name \in DOMAIN result.members
         THEN Returned(result.members[name])
         ELSE Returned(JStr(<<>>))

\* value.lower(): on anything but a string, AttributeError
LowerOf(got) ==
    IF got.kind = "raise" THEN got
    ELSE IF got.value.t # "str" THEN Raised("AttributeError")
         ELSE Returned(Lower(got.value.v))

\* the try body from the provider's answer on
TryBody(answer) ==
    IF answer.kind = "raise" THEN Raised(answer.exc)
    ELSE IF answer.text = NoText THEN Raised("AttributeError")
    ELSE IF answer.text = JInvalid THEN Raised("JSONDecodeError")
    ELSE LET result   == answer.text
             category == LowerOf(Get(result, "suggested_category"))
             priority == LowerOf(Get(result, "suggested_priority"))
         IN  IF category.kind = "raise" THEN category
             ELSE IF priority.kind = "raise" THEN priority
             ELSE IF ~ValidSuggestion(category.value, priority.value)
                  THEN ReturnedNone
                  ELSE Returned([suggested_category |-> category.value,
                                 suggested_priority |-> priority.value])

\* try: ... except Exception: return None
Guarded(outcome) ==
    IF outcome.kind = "raise" /\ ExceptClause(outcome.exc)
    THEN ReturnedNone
    ELSE outcome

\* views.py classify, from the return of classify_ticket on: None is
\* answered 503, a result 200; an exception that escapes is a 500
ClassifyResponse(outcome) ==
    IF outcome.kind = "raise" THEN Response(500, outcome.exc)
    ELSE IF outcome.kind = "none" THEN Response(503, None)
    ELSE Response(200, outcome.value)

\* ClassifyRequestSerializer: description is required and not blank
DescriptionValid(data) ==
    /\ "description" \in DOMAIN data
    /\ Strip(data.description) # <<>>

\* POST /tickets/classify, up to the call of the provider.  construct is
\* what genai.Client(api_key=...) does: "ok" or the exception it raises.
ClassifyRequest(data, construct) ==
    /\ clsPc = "idle"
    /\ CredentialAbsent(api_key) \/ providerCalls < MaxCalls
    /\ req' = [op |-> "classify", id |-> 0, data |-> data]
    /\ reply' = NoReply
    /\ IF ~DescriptionValid(data)
       THEN /\ resp' = Response(400, None)
            /\ UNCHANGED <<clsPc, providerCalls>>
       ELSE IF CredentialAbsent(api_key)
       THEN /\ resp' = ClassifyResponse(ReturnedNone)
            /\ UNCHANGED <<clsPc, providerCalls>>
       ELSE IF construct # "ok"
       THEN /\ resp' = ClassifyResponse(Guarded(Raised(construct)))
            /\ UNCHANGED <<clsPc, providerCalls>>
       ELSE /\ providerCalls' = providerCalls + 1
            /\ clsPc' = "awaiting"
            /\ resp' = EmptyResponse
    /\ UNCHANGED <<storeVars, statsVars, api_key, provider>>

\* the provider answers the call in flight and classify_ticket runs to its
\* return; a silent provider never answers, and nothing in the call gives up
\* waiting
ProviderAnswers(answer) ==
    /\ clsPc = "awaiting"
    /\ provider = "responsive"
    /\ reply' = answer
    /\ resp' = ClassifyResponse(Guarded(TryBody(answer)))
    /\ clsPc' = "idle"
    /\ UNCHANGED <<storeVars, statsVars, req, api_key, provider, providerCalls>>

BILLING == <<"B","I","L","L","I","N","G">>
High    == <<"H","i","g","h">>
refund  == <<"r","e","f","u","n","d">>

Text(value) == [kind |-> "response", text |-> value]

ProviderReplies ==
    { [kind |-> "raise", exc |-> "ReadTimeout"],
      [kind |-> "raise", exc |-> "ClientError429"],
      [kind |-> "raise", exc |-> "ClientError401"],
      [kind |-> "raise", exc |-> "ServerError"],
      Text(NoText),
      Text(JInvalid),
      Text(JArr),
      Text(JNull),
      Text(JStr(billing)),
      Text(JObj(<<>>)),
      Text(JObj([suggested_category |-> JStr(billing),
                 suggested_priority |-> JStr(high)])),
      Text(JObj([suggested_category |-> JStr(BILLING),
                 suggested_priority |-> JStr(High)])),
      Text(JObj([suggested_category |-> JStr(account),
                 suggested_priority |-> JStr(critical),
                 confidence |-> JNum])),
      Text(JObj([suggested_category |-> JStr(technical)])),
      Text(JObj([suggested_priority |-> JStr(low)])),
      Text(JObj([suggested_category |-> JStr(refund),
                 suggested_priority |-> JStr(low)])),
      Text(JObj([suggested_category |-> JStr(general),
                 suggested_priority |-> JStr(urgent)])),
      Text(JObj([suggested_category |-> JStr(billing),
                 suggested_priority |-> JNum])),
      Text(JObj([suggested_category |-> JNull,
                 suggested_priority |-> JStr(medium)])),
      Text(JObj([suggested_category |-> JArr,
                 suggested_priority |-> JStr(medium)])) }

ClassifyInputs ==
    { <<>>,
      [description |-> <<>>],
      [description |-> tBlank],
      [description |-> dA],
      [description |-> dB],
      [description |-> tPad] }

ClassifyNext ==
    \/ \E data \in ClassifyInputs, construct \in {"ok", "ValueError"} :
           ClassifyRequest(data, construct)
    \/ \E answer \in ProviderReplies : ProviderAnswers(answer)

ClassifySpec == Init /\ [][ClassifyNext]_vars

\* the handler takes its next step whenever it has one
ClassifyFairSpec == ClassifySpec /\ WF_vars(ClassifyNext)

-----------------------------------------------------------------------------
(* The whole service: every request kind, interleaved *)

Next ==
    \/ WriteNext
    \/ ListNext
    \/ StatsNext
    \/ ClassifyNext

Spec == Init /\ [][Next]_vars

-----------------------------------------------------------------------------
(* Properties of the writes *)

AllowedCategories == {billing, technical, account, general}
AllowedPriorities == {low, medium, high, critical}
AllowedStatuses   == {open, in_progress, resolved, closed}

IsWrite(r) == r.op \in {"create", "update"}

\* the input supplies a value outside the enumeration of its field
SuppliesInvalidEnum(data) ==
    \/ "category" \in DOMAIN data /\ data.category \notin AllowedCategories
    \/ "priority" \in DOMAIN data /\ data.priority \notin AllowedPriorities
    \/ "status" \in DOMAIN data /\ data.status \notin AllowedStatuses

EnumsInRange ==
    \A i \in Ids :
        /\ tickets[i].category \in AllowedCategories
        /\ tickets[i].priority \in AllowedPriorities
        /\ tickets[i].status \in AllowedStatuses

\* C1: whatever creates and partial updates ran, accepted or rejected, every
\* stored ticket has its category, priority and status inside the
\* enumerations; a create or update supplying a value outside them is
\* rejected (400, or 404 for an unknown id) and leaves the table unchanged.
C1_EnumsEnforced ==
    /\ []EnumsInRange
    /\ [][(IsWrite(req') /\ SuppliesInvalidEnum(req'.data))
            => /\ resp'.status \in {400, 404}
               /\ resp'.status = 404 => (req'.op = "update" /\ req'.id \notin Ids)
               /\ tickets' = tickets]_vars

C1_Witness ==
    /\ Len(tickets) = MaxTickets
    /\ req.op = "update" /\ req.id \in Ids
    /\ SuppliesInvalidEnum(req.data)
    /\ "status" \in DOMAIN req.data /\ req.data.status \in AllowedStatuses
    /\ resp.status = 400

RowFields       == {"id", "title", "description", "category", "priority",
                    "status", "created_at"}
UpdatableFields == {"title", "description", "category", "priority", "status"}

\* C10: a successful partial update changes, in the addressed row, only the
\* updatable fields present in the input (id and created_at keep their value
\* even when supplied) and no other row; an update of an unknown id answers
\* 404, one with an invalid enum value 400, and a failed update changes
\* nothing.
C10_UpdateFrame ==
    [][req'.op = "update" =>
        /\ Len(tickets') = Len(tickets)
        /\ \A i \in Ids : i # req'.id => tickets'[i] = tickets[i]
        /\ (req'.id \in Ids /\ resp'.status = 200) =>
              \A f \in RowFields \ (DOMAIN req'.data \cap UpdatableFields) :
                  tickets'[req'.id][f] = tickets[req'.id][f]
        /\ resp'.status # 200 => tickets' = tickets
        /\ req'.id \notin Ids => resp'.status = 404
        /\ (req'.id \in Ids /\ SuppliesInvalidEnum(req'.data))
              => resp'.status = 400]_vars

C10_Witness ==
    /\ Len(tickets) = MaxTickets
    /\ req.op = "update" /\ req.id = 1
    /\ {"id", "created_at", "status"} \subseteq DOMAIN req.data
    /\ resp.status = 200
    /\ tickets[1].status = req.data.status
    /\ tickets[1].created_at # req.data.created_at
    /\ tickets[1].id = 1

-----------------------------------------------------------------------------
(* Properties of the stats summary *)

RECURSIVE SumOver(_, _)
SumOver(f, keys) ==
    IF keys = {} THEN 0
    ELSE LET k == CHOOSE x \in keys : TRUE
         IN  f[k] + SumOver(f, keys \ {k})

Total(f) == SumOver(f, DOMAIN f)

CountWhere(field, v) == Cardinality({i \in Ids : tickets[i][field] = v})

\* C2: every summary a stats call returns while creates and updates of other
\* requests interleave with it aggregates one single state of the table: its
\* priority counts sum to totalTickets, its category counts sum to
\* totalTickets and openTickets <= totalTickets.
C2_ConsistentSnapshot ==
    req.op = "stats" =>
        /\ Total(resp.body.priority_breakdown) = resp.body.total
        /\ Total(resp.body.category_breakdown) = resp.body.total
        /\ resp.body.open_count <= resp.body.total

\* C8: with requests served one at a time, the summary has totalTickets = the
\* number of tickets, openTickets = the number of open ones, and breakdowns
\* whose keys are exactly the 4 priorities / 4 categories, each counting the
\* tickets with that value (0 when there are none).
C8_StatsCounts ==
    req.op = "stats" =>
        /\ resp.status = 200
        /\ resp.body.total = Len(tickets)
        /\ resp.body.open_count = CountWhere("status", open)
        /\ DOMAIN resp.body.priority_breakdown = AllowedPriorities
        /\ \A p \in AllowedPriorities :
               resp.body.priority_breakdown[p] = CountWhere("priority", p)
        /\ DOMAIN resp.body.category_breakdown = AllowedCategories
        /\ \A c \in AllowedCategories :
               resp.body.category_breakdown[c] = CountWhere("category", c)
        /\ Len(tickets) = 0 =>
               /\ resp.body.open_count = 0
               /\ \A p \in AllowedPriorities : resp.body.priority_breakdown[p] = 0
               /\ \A c \in AllowedCategories : resp.body.category_breakdown[c] = 0

C8_Witness ==
    /\ req.op = "stats"
    /\ Len(tickets) = MaxStatsTickets
    /\ resp.body.total = MaxStatsTickets
    /\ resp.body.open_count = 2
    /\ resp.body.priority_breakdown[high] = 2
    /\ resp.body.priority_breakdown[critical] = 0
    /\ resp.body.category_breakdown[billing] = 2
    /\ resp.body.category_breakdown[account] = 0

CreationDates == {tickets[i].created_at \div TicksPerDay : i \in Ids}

Abs(x) == IF x < 0 THEN -x ELSE x

\* C9: with requests served one at a time, avgTicketsPerDay (kept in tenths)
\* is the number of tickets divided by the number of distinct creation dates,
\* rounded to the nearest tenth, and 0 on an empty table.
C9_AvgPerDay ==
    req.op = "stats" =>
        IF Len(tickets) = 0
        THEN resp.body.avg_per_day = 0
        ELSE 2 * Abs(10 * Len(tickets)
                     - resp.body.avg_per_day * Cardinality(CreationDates))
                <= Cardinality(CreationDates)

C9_Witness ==
    /\ req.op = "stats"
    /\ Len(tickets) = 5
    /\ Cardinality(CreationDates) = 3
    /\ SetMax(CreationDates) - SetMin(CreationDates) = 3
    /\ resp.body.avg_per_day = 17

-----------------------------------------------------------------------------
(* Properties of list *)

ReturnedIds == {resp.body[n].id : n \in DOMAIN resp.body}

FilterEquals(row, params) ==
    /\ "category" \in DOMAIN params => row.category = params.category
    /\ "priority" \in DOMAIN params => row.priority = params.priority
    /\ "status" \in DOMAIN params => row.status = params.status

\* needle is a case-insensitive substring of hay
ISubstring(hay, needle) ==
    \E i \in 0..(Len(hay) - Len(needle)) :
        \A k \in 1..Len(needle) : LowerChar(hay[i + k]) = LowerChar(needle[k])

\* the maximal runs of s without whitespace or comma
Words(s) ==
    LET sep == {" ", "\t", "\n", ","}
        runs == {p \in (1..Len(s)) \X (1..Len(s)) :
                    /\ p[1] <= p[2]
                    /\ \A k \in p[1]..p[2] : s[k] \notin sep
                    /\ p[1] = 1 \/ s[p[1] - 1] \in sep
                    /\ p[2] = Len(s) \/ s[p[2] + 1] \in sep}
    IN  {SubSeq(s, p[1], p[2]) : p \in runs}

\* C7 as stated: list returns exactly the tickets that equal every supplied
\* filter and, when search is supplied, contain the search string as a
\* case-insensitive substring of title or description.
C7_ListExact ==
    req.op = "list" =>
        ReturnedIds =
            {i \in Ids :
                /\ FilterEquals(tickets[i], req.data)
                /\ "search" \in DOMAIN req.data =>
                      \/ ISubstring(tickets[i].title, req.data.search)
                      \/ ISubstring(tickets[i].description, req.data.search)}

\* C7 amended: list returns exactly the tickets that equal every supplied
\* filter and, when search is supplied, contain every whitespace- or
\* comma-separated term of the search string as a case-insensitive substring
\* of title or description; each selected ticket is returned once.
C7_ListExactByTerms ==
    req.op = "list" =>
        /\ resp.status = 200
        /\ Cardinality(ReturnedIds) = Len(resp.body)
        /\ \A n \in DOMAIN resp.body : resp.body[n] = tickets[resp.body[n].id]
        /\ ReturnedIds =
            {i \in Ids :
                /\ FilterEquals(tickets[i], req.data)
                /\ "search" \in DOMAIN req.data =>
                      \A w \in Words(req.data.search) :
                          \/ ISubstring(tickets[i].title, w)
                          \/ ISubstring(tickets[i].description, w)}

C7_Witness ==
    /\ req.op = "list"
    /\ Len(tickets) = MaxTickets
    /\ {"category", "priority", "search"} \subseteq DOMAIN req.data
    /\ req.data.search = <<"a"," ","b">>
    /\ Len(resp.body) = 1
    /\ ~ISubstring(resp.body[1].title, req.data.search)
    /\ ~ISubstring(resp.body[1].description, req.data.search)

-----------------------------------------------------------------------------
(* Properties of the classification gateway *)

LowerCased(s) == [i \in 1..Len(s) |-> LowerChar(s[i])]

SuggestionKeys == {"suggested_category", "suggested_priority"}

\* C3: classify_ticket never raises to its caller: whatever the description
\* and whatever the provider does (exception on construction or on the call,
\* text that is not JSON, JSON that is not an object, missing or non-string
\* fields), the endpoint answers 400 (description rejected), 200 with a
\* suggestion pair, or 503 for Unavailable; never a 500.
C3_NeverRaises ==
    req.op = "classify" =>
        /\ resp.status \in {0, 200, 400, 503}
        /\ resp.status = 0 <=> clsPc = "awaiting"
        /\ resp.status = 400 <=> ~("description" \in DOMAIN req.data
                                    /\ \E i \in DOMAIN req.data.description :
                                          req.data.description[i] \notin Whitespace)
        /\ resp.status = 200 => DOMAIN resp.body = SuggestionKeys
        /\ resp.status = 503 => resp.body = None

C3_Witness ==
    /\ req.op = "classify"
    /\ clsPc = "idle"
    /\ reply.kind = "response"
    /\ reply.text = JArr
    /\ resp.status = 503

\* the answer is a JSON object whose two fields are strings that, lower-cased,
\* are an allowed category and an allowed priority
SuggestionExpected(answer) ==
    /\ answer.kind = "response"
    /\ answer.text.t = "obj"
    /\ SuggestionKeys \subseteq DOMAIN answer.text.members
    /\ answer.text.members.suggested_category.t = "str"
    /\ answer.text.members.suggested_priority.t = "str"
    /\ LowerCased(answer.text.members.suggested_category.v) \in AllowedCategories
    /\ LowerCased(answer.text.members.suggested_priority.v) \in AllowedPriorities

\* C5: once the provider has answered, classify returns a suggestion exactly
\* when the answer parses as JSON and both fields, lower-cased, are members of
\* the allowed sets, and Unavailable otherwise; a returned suggestion holds the
\* lower-cased fields, members of the allowed category and priority sets.
C5_SuggestionValidated ==
    (req.op = "classify" /\ clsPc = "idle" /\ reply.kind # "none") =>
        /\ resp.status \in {200, 503}
        /\ resp.status = 200 <=> SuggestionExpected(reply)
        /\ resp.status = 200 =>
              /\ resp.body.suggested_category \in AllowedCategories
              /\ resp.body.suggested_priority \in AllowedPriorities
              /\ resp.body.suggested_category =
                    LowerCased(reply.text.members.suggested_category.v)
              /\ resp.body.suggested_priority =
                    LowerCased(reply.text.members.suggested_priority.v)

C5_Witness ==
    /\ req.op = "classify"
    /\ clsPc = "idle"
    /\ reply.kind = "response"
    /\ reply.text.t = "obj"
    /\ SuggestionKeys \subseteq DOMAIN reply.text.members
    /\ reply.text.members.suggested_category = JStr(BILLING)
    /\ resp.status = 200
    /\ resp.body.suggested_category = billing
    /\ resp.body.suggested_priority = high

\* C4: a classify call whose provider never answers eventually returns to
\* its caller, with Unavailable.
C4_TimeBounded ==
    (clsPc = "awaiting" /\ provider = "silent")
        ~> (clsPc = "idle" /\ resp.status = 503)

\* C6 as stated: with no credential configured, classify with any non-empty
\* description answers 503 and no call reaches the provider.
C6_NoCredentialUnavailable ==
    (api_key = "" /\ req.op = "classify"
        /\ "description" \in DOMAIN req.data /\ req.data.description # <<>>) =>
        /\ resp.status = 503
        /\ providerCalls = 0
        /\ clsPc = "idle"

\* C6 amended: with no credential configured, no call reaches the provider;
\* classify with a description that is non-empty after trimming whitespace
\* answers 503, and with a missing, empty or whitespace-only one 400.
C6_NoCredentialNoCall ==
    api_key = "" =>
        /\ providerCalls = 0
        /\ clsPc = "idle"
        /\ reply.kind = "none"
        /\ req.op = "classify" =>
              IF /\ "description" \in DOMAIN req.data
                 /\ \E i \in DOMAIN req.data.description :
                        req.data.description[i] \notin {" ", "\t", "\n"}
              THEN resp.status = 503
              ELSE resp.status = 400

C6_Witness ==
    /\ api_key = ""
    /\ req.op = "classify"
    /\ "description" \in DOMAIN req.data
    /\ req.data.description = tPad
    /\ resp.status = 503
    /\ providerCalls = 0

-----------------------------------------------------------------------------
(* Properties of the listing order *)

\* C11: list returns the tickets newest first: of every two tickets in the
\* result, the one created later (created_at not earlier, larger id) comes
\* before the one created earlier, whatever creates and updates ran before,
\* so that an update never changes the relative position of two tickets.
C11_NewestFirst ==
    req.op = "list" =>
        \A a, b \in DOMAIN resp.body :
            a < b => /\ resp.body[a].created_at >= resp.body[b].created_at
                     /\ resp.body[a].id > resp.body[b].id

====
